---- MODULE Spec2Model ----
(***************************************************************************)
(* Model of DynaPhoPy's trajectory container (dynaphopy/classes/           *)
(* dynamics.py) and of its power-spectrum drivers (dynaphopy/              *)
(* power_spectrum.py).                                                     *)
(*                                                                         *)
(* Conventions                                                             *)
(*  - An optional Python value is a tuple of length 0 (None) or 1.         *)
(*  - Floating point numbers are exact rationals <<num, den>> in lowest    *)
(*    terms with den > 0; <<0, 0>> stands for a non-finite result (a       *)
(*    division by zero in numpy yields inf/nan, not an exception).         *)
(*  - A trajectory, velocity, energy or time series is a sequence over     *)
(*    the time axis.  The atom and spatial axes are represented by one     *)
(*    tracked atom and one tracked coordinate.                             *)
(*  - Cell matrices are diagonal; a cell is the triple of its diagonal.    *)
(*  - A call returns a record [self, ret, st]: the object after the call,  *)
(*    the returned value and how the call ended ("ok", "exit" for exit(),  *)
(*    "raise" for an uncaught Python exception).                           *)
(***************************************************************************)
EXTENDS Integers, Sequences, FiniteSets, TLC

VARIABLES self, pre, last, halted, velocity_derived

\* the running power-spectrum function: its name, its arguments (the shape
\* of vq and the parameters read), its control point and its locals
VARIABLES fn, args, pc, mode_index, candidate_index, psd_vector, progress, calls,
          fit_data, scan_params, power_spectra, mem_full_dict, report

\* get_correct_arangement inside check_trajectory_structure: its control
\* point, its arguments (the averaged positions and the primitive atom
\* count), its locals, what it returned and the trajectory's atom axis
VARIABLES a_pc, reference, number_of_cell_atoms, unit_coordinates, cell_size,
          order_type, ref_index, list_trans, arangement, atom_axis

dynvars == <<self, pre, last, halted, velocity_derived>>

psvars == <<fn, args, pc, mode_index, candidate_index, psd_vector, progress, calls,
            fit_data, scan_params, power_spectra, mem_full_dict, report>>

arrvars == <<a_pc, reference, number_of_cell_atoms, unit_coordinates, cell_size,
             order_type, ref_index, list_trans, arangement, atom_axis>>

vars == <<dynvars, psvars, arrvars>>

\* ------------------------------------------------------------- bounds
MaxLen == 3

MaxPrimitiveAtoms == 2

MaxModes == 3

MaxSamples == 4

MaxCoefficients == 3

MaxCellSize == 2

\* ------------------------------------------------------------ helpers
None == <<>>

Some(x) == <<x>>

Abs(x) == IF x < 0 THEN -x ELSE x

RECURSIVE GCD(_, _)
GCD(a, b) == IF b = 0 THEN a ELSE GCD(b, a % b)

NaN == <<0, 0>>

IsNaN(q) == q[2] = 0

Q(n, d) ==
    IF d = 0 THEN NaN
    ELSE LET g == GCD(Abs(n), Abs(d))
             sg == IF d < 0 THEN -1 ELSE 1
         IN  <<(sg * n) \div g, (sg * d) \div g>>

QInt(n) == <<n, 1>>

QAdd(a, b) == IF IsNaN(a) \/ IsNaN(b) THEN NaN ELSE Q(a[1] * b[2] + b[1] * a[2], a[2] * b[2])

QSub(a, b) == IF IsNaN(a) \/ IsNaN(b) THEN NaN ELSE Q(a[1] * b[2] - b[1] * a[2], a[2] * b[2])

QMul(a, b) == IF IsNaN(a) \/ IsNaN(b) THEN NaN ELSE Q(a[1] * b[1], a[2] * b[2])

QDiv(a, b) == IF IsNaN(a) \/ IsNaN(b) THEN NaN ELSE Q(a[1] * b[2], a[2] * b[1])

\* a > b on finite rationals; any comparison with a non-finite value is false
QGreater(a, b) == ~IsNaN(a) /\ ~IsNaN(b) /\ a[1] * b[2] > b[1] * a[2]

RECURSIVE QSum(_)
QSum(s) == IF s = <<>> THEN QInt(0) ELSE QAdd(s[1], QSum(Tail(s)))

RECURSIVE ISqrt(_, _)
ISqrt(n, r) == IF (r + 1) * (r + 1) > n THEN r ELSE ISqrt(n, r + 1)

\* numpy.around / astype("int"): round half to even
Around(q) ==
    LET fl == q[1] \div q[2]
        twice == 2 * (q[1] - fl * q[2])
    IN  IF twice < q[2] THEN fl
        ELSE IF twice > q[2] THEN fl + 1
        ELSE IF fl % 2 = 0 THEN fl ELSE fl + 1

\* Python's x[-n:] on a sequence
LastSlice(s, n) ==
    IF n = 0 \/ n >= Len(s) THEN s
    ELSE SubSeq(s, Len(s) - n + 1, Len(s))

R(obj, ret, st) == [self |-> obj, ret |-> ret, st |-> st]

\* no call was made on the Dynamics object yet
NoCall == [op |-> "__init__", arg |-> None, st |-> "ok", ret |-> None]

\* no power-spectrum function is running
NoFunction ==
    /\ fn = "none" /\ pc = "idle" /\ mode_index = 0 /\ candidate_index = 0
    /\ args = [n_samples |-> 0, n_modes |-> 0, number_of_coefficients_mem |-> 0,
               mem_scan_range |-> <<>>]
    /\ psd_vector = <<>> /\ progress = <<>> /\ calls = <<>>
    /\ fit_data = <<>> /\ scan_params = <<>> /\ power_spectra = <<>>
    /\ mem_full_dict = <<>> /\ report = <<>>

\* get_correct_arangement is not running
NoArrangement ==
    /\ a_pc = "idle" /\ reference = <<>> /\ number_of_cell_atoms = 0
    /\ unit_coordinates = <<>> /\ cell_size = <<>> /\ order_type = 0
    /\ ref_index = 0 /\ list_trans = <<>> /\ arangement = None /\ atom_axis = <<>>

\* ---------------------------------------------------------- Dynamics
\* Dynamics.__init__: the raw series as given, every cache empty
NewDynamics(structure, trajectory, velocity, energy, time, super_cell) ==
    [time |-> time, trajectory |-> trajectory, energy |-> energy,
     velocity |-> velocity, super_cell |-> super_cell,
     time_step_average |-> None, velocity_mass_average |-> None,
     relative_trajectory |-> None, super_cell_matrix |-> None,
     number_of_atoms |-> None, mean_displacement_matrix |-> None,
     structure |-> structure]

parameters(h) == <<Abs(h[1]), Abs(h[2]), Abs(h[3])>>

Prod3(v) == v[1] * v[2] * v[3]

\* sum(rounded - real) / norm(real) compared with the tolerance, on squares:
\* |sum d| / norm > tol  <=>  (sum d)^2 > tol^2 * sum real^2
DoNotFit(rounded, real, tolerance) ==
    LET d == [i \in 1..3 |-> QSub(QInt(rounded[i]), real[i])]
        total == QSum(d)
        norm2 == QSum([i \in 1..3 |-> QMul(real[i], real[i])])
    IN  QGreater(QMul(total, total), QMul(QMul(tolerance, tolerance), norm2))

get_super_cell_matrix(s, tolerance) ==
    IF s.super_cell_matrix # None THEN R(s, s.super_cell_matrix[1], "ok")
    ELSE IF s.super_cell = None THEN R(s, None, "raise")
    ELSE LET sim == parameters(s.super_cell[1])
             ref == parameters(s.structure.cell)
             real == [i \in 1..3 |-> Q(sim[i], ref[i])]
             rounded == [i \in 1..3 |-> Around(real[i])]
             s1 == [s EXCEPT !.super_cell_matrix = Some(rounded)]
         IN  IF DoNotFit(rounded, real, tolerance) THEN R(s1, None, "exit")
             ELSE R(s1, rounded, "ok")

DefaultTolerance == <<1, 100>>

\* get_number_of_atoms, from the supercell matrix r on
number_of_atoms_cell(r) ==
    IF r.st # "ok" THEN r
    ELSE R([r.self EXCEPT !.number_of_atoms =
                Some(r.self.structure.number_of_atoms * Prod3(r.ret))],
           r.self.structure.number_of_atoms * Prod3(r.ret), "ok")

get_number_of_atoms(s) ==
    IF s.number_of_atoms # None THEN R(s, s.number_of_atoms[1], "ok")
    ELSE number_of_atoms_cell(get_super_cell_matrix(s, DefaultTolerance))

set_time(s, time) == R([s EXCEPT !.time = Some(time)], None, "ok")

set_super_cell(s, super_cell) == R([s EXCEPT !.super_cell = Some(super_cell)], None, "ok")

set_structure(s, structure) == R([s EXCEPT !.structure = structure], None, "ok")

get_time_step_average(s) ==
    IF s.time_step_average # None /\ s.time_step_average[1] # QInt(0)
    THEN R(s, s.time_step_average[1], "ok")
    ELSE LET s0 == [s EXCEPT !.time_step_average = Some(QInt(0))]
         IN  IF s.time = None THEN R(s0, None, "raise")
             ELSE LET t == s.time[1]
                      avg == QSum([i \in 1..(Len(t) - 1) |-> Q(t[i + 1] - t[i], Len(t) - 1)])
                  IN  R([s EXCEPT !.time_step_average = Some(avg)], avg, "ok")

\* External collaborator dynaphopy.analysis.coordinates.relativize_trajectory:
\* positions relative to the equilibrium lattice site, same shape as the raw
\* trajectory.  It reads dynamic.trajectory, whose property exits when no
\* trajectory is loaded.
relativize_trajectory(s) ==
    IF s.trajectory = None THEN R(s, None, "exit")
    ELSE R(s, [t \in 1..Len(s.trajectory[1]) |-> s.trajectory[1][t] - s.structure.position], "ok")

get_relative_trajectory(s) ==
    IF s.relative_trajectory # None THEN R(s, s.relative_trajectory[1], "ok")
    ELSE LET r == relativize_trajectory(s)
         IN  IF r.st # "ok" THEN r
             ELSE R([r.self EXCEPT !.relative_trajectory = Some(r.ret)], r.ret, "ok")

\* numpy.gradient(f, h) for Len(f) >= 2: central differences inside,
\* one-sided differences at both ends
gradient(f, h) ==
    [i \in 1..Len(f) |->
        IF i = 1 THEN QDiv(QInt(f[2] - f[1]), h)
        ELSE IF i = Len(f) THEN QDiv(QInt(f[i] - f[i - 1]), h)
        ELSE QDiv(QInt(f[i + 1] - f[i - 1]), QMul(QInt(2), h))]

zeros_like(f) == [i \in 1..Len(f) |-> QInt(0)]

\* the velocity property, last step: the gradient of the relative trajectory
\* over the average time step h
velocity_gradient(relative, h) ==
    IF h.st # "ok" THEN h
    ELSE IF Len(relative) < 2 THEN R(h.self, None, "raise")
    ELSE LET v == gradient(relative, h.ret)
         IN  R([h.self EXCEPT !.velocity = Some(v)], v, "ok")

\* the velocity property, the loop over range(self.get_number_of_atoms())
velocity_atoms(relative, n) ==
    IF n.st # "ok" THEN n
    ELSE IF n.ret <= 0 THEN R(n.self, n.self.velocity[1], "ok")
    ELSE velocity_gradient(relative, get_time_step_average(n.self))

\* the velocity property, from the relative trajectory r on
velocity_zeros(r) ==
    IF r.st # "ok" THEN r
    ELSE velocity_atoms(r.ret,
             get_number_of_atoms([r.self EXCEPT !.velocity = Some(zeros_like(r.ret))]))

\* the velocity property
velocity(s) ==
    IF s.velocity # None THEN R(s, s.velocity[1], "ok")
    ELSE velocity_zeros(get_relative_trajectory(s))

\* velocity[:, i, :] * sqrt(mass) for the tracked atom
mass_weight(v, mass) == [i \in 1..Len(v) |-> QMul(v[i], QInt(ISqrt(mass, 0)))]

\* get_velocity_mass_average, the loop body over n atoms on velocity v
mass_average_atoms(v, n) ==
    IF n.st # "ok" THEN n
    ELSE LET w == IF n.ret <= 0 THEN <<>> ELSE mass_weight(v, n.self.structure.mass)
         IN  R([n.self EXCEPT !.velocity_mass_average = Some(w)], w, "ok")

\* get_velocity_mass_average, from the supercell matrix m on
mass_average_cell(v, m) ==
    IF m.st # "ok" THEN m
    ELSE mass_average_atoms(v, get_number_of_atoms(m.self))

\* get_velocity_mass_average, from the velocity r on
mass_average_velocity(r) ==
    IF r.st # "ok" THEN r
    ELSE mass_average_cell(r.ret, get_super_cell_matrix(r.self, DefaultTolerance))

get_velocity_mass_average(s) ==
    IF s.velocity_mass_average # None THEN R(s, s.velocity_mass_average[1], "ok")
    ELSE mass_average_velocity(velocity(s))

\* the tracked atom type's entry of the mean displacement matrix
displacement_matrix(displacements, primitive_normalization, number_of_equivalent_atoms) ==
    Q(QSum([t \in 1..Len(displacements) |-> QInt(displacements[t] * displacements[t])])[1],
      primitive_normalization * number_of_equivalent_atoms * Len(displacements))

\* get_mean_displacement_matrix, from the relative trajectory r on
mean_displacement_relative(cell, primitive_normalization, r) ==
    IF r.st # "ok" THEN r
    ELSE LET m == displacement_matrix(r.ret, primitive_normalization, Prod3(cell))
         IN  R([r.self EXCEPT !.mean_displacement_matrix = Some(m)], m, "ok")

\* get_mean_displacement_matrix, from the supercell matrix c on
mean_displacement_cell(primitive_normalization, c) ==
    IF c.st # "ok" THEN c
    ELSE mean_displacement_relative(c.ret, primitive_normalization,
                                    get_relative_trajectory(c.self))

get_mean_displacement_matrix(s) ==
    IF s.mean_displacement_matrix # None THEN R(s, s.mean_displacement_matrix[1], "ok")
    ELSE mean_displacement_cell(s.structure.number_of_atoms,
                                get_super_cell_matrix(s, DefaultTolerance))

\* crop_trajectory, lines 139-145: the velocity r read through the property
crop_velocity(r, n) ==
    IF r.st # "ok" THEN r
    ELSE R([r.self EXCEPT !.velocity = Some(LastSlice(r.ret, n)),
                          !.velocity_mass_average = None,
                          !.relative_trajectory = None], None, "ok")

\* x[-n:] of a series that is present
crop_series(x, n) == IF x = None THEN None ELSE Some(LastSlice(x[1], n))

crop_trajectory(s, last_steps) ==
    IF last_steps = None \/ last_steps[1] < 0 THEN R(s, None, "ok")
    ELSE crop_velocity(velocity([s EXCEPT !.trajectory = crop_series(s.trajectory, last_steps[1]),
                                          !.energy = crop_series(s.energy, last_steps[1]),
                                          !.time = crop_series(s.time, last_steps[1])]),
                       last_steps[1])

\* ------------------------------------------------------------- inputs
Positions == {0, 1}

Series(M) == [1..M -> Positions]

VelocitySeries(M) == {[i \in 1..M |-> QInt(s[i])] : s \in Series(M)}

EnergySeries(M) == {[i \in 1..M |-> i]}

\* a uniformly and a non-uniformly spaced time axis
TimeSeries(M) == {[i \in 1..M |-> i - 1], [i \in 1..M |-> (i - 1) * (i - 1)]}

Opt(S) == {None} \cup {Some(x) : x \in S}

Structure(cell, n, mass) == [cell |-> cell, number_of_atoms |-> n, mass |-> mass, position |-> 1]

SiStructure == Structure(<<5, 5, 5>>, 1, 4)

Tolerances == {DefaultTolerance, <<1, 10>>}

RefCells == {<<5, 5, 5>>, <<10, 5, 5>>}

Structures == {Structure(c, n, 4) : c \in RefCells, n \in 1..MaxPrimitiveAtoms}

SuperCells == {<<10, 10, 10>>, <<10, 5, 5>>, <<7, 8, 10>>, <<7, 5, 5>>,
               <<2, 250, 250>>, <<8, 5, 5>>}

\* ------------------------------------------- get_correct_arangement
\* "/" on Python 2 integers
FloorDiv(a, b) == a \div b

\* the row-major order of the atoms of a supercell: x fastest, then y, z and
\* the primitive atom
RowMajor(n, size, natom) ==
    <<n % size[1],
      FloorDiv(n % (size[1] * size[2]), size[1]),
      FloorDiv(n % (size[1] * size[2] * size[3]), size[2] * size[1]),
      FloorDiv(n, size[2] * size[1] * size[3])>>

type_1(n, size, natom) ==
    <<n % size[1],
      FloorDiv(n % (size[1] * size[2]), size[2]),
      FloorDiv(n % (size[1] * size[2] * size[3]), size[2] * size[1]),
      FloorDiv(n, size[2] * size[1] * size[3])>>

type_2(n, size, natom) ==
    <<FloorDiv(n % (size[1] * natom), natom),
      FloorDiv(n % (size[1] * natom * size[2]), size[1] * natom),
      FloorDiv(n, size[2] * size[1] * natom),
      n % natom>>

\* np.array(trans.real, dtype=int) of coordinate . inv(cell).T for a
\* diagonal cell: the quotient truncated toward zero
UnitCoordinate(coordinate, cell) ==
    [j \in 1..3 |-> IF coordinate[j] >= 0 THEN coordinate[j] \div cell[j]
                    ELSE -((-coordinate[j]) \div cell[j])]

\* int(round(x)) of Python 2: halves round away from zero
Round(q) ==
    LET n == Abs(q[1])
        fl == n \div q[2]
        r == IF 2 * (n - fl * q[2]) >= q[2] THEN fl + 1 ELSE fl
    IN  IF q[1] < 0 THEN -r ELSE r

RECURSIVE Sum(_)
Sum(v) == IF v = <<>> THEN 0 ELSE v[1] + Sum(Tail(v))

\* cell_size = [int(round(2*a+1)) for a in np.average(unit_coordinates, axis=0)]
CellSize(coords) ==
    [j \in 1..3 |->
        Round(QAdd(QMul(QInt(2), Q(Sum([n \in 1..Len(coords) |-> coords[n][j]]), Len(coords))),
                   QInt(1)))]

\* the squared norm of the atoms' summed squared deviations from an encoding;
\* both encodings are averaged over the same atoms, so the order of the two
\* norms is the order of these
Residual(encoded, coords) ==
    LET dev(j) == Sum([n \in 1..Len(coords) |->
                        (encoded[n][j] - coords[n][j]) * (encoded[n][j] - coords[n][j])])
    IN  dev(1) * dev(1) + dev(2) * dev(2) + dev(3) * dev(3)

\* np.argmin of the two norms: 1 only when type 2 fits strictly better
OrderType(coords, size, natom) ==
    IF Residual([n \in 1..Len(coords) |-> type_2(n - 1, size, natom)], coords)
           < Residual([n \in 1..Len(coords) |-> type_1(n - 1, size, natom)], coords)
    THEN 1 ELSE 0

\* the indices i of list_target whose entry equals the reference entry, in
\* ascending order
RECURSIVE Matches(_, _, _)
Matches(ref, list_target, from) ==
    IF from > Len(list_target) THEN <<>>
    ELSE (IF list_target[from] = ref THEN <<from - 1>> ELSE <<>>)
             \o Matches(ref, list_target, from + 1)

\* lines 36-42: the unit coordinates and the cell size
ArrCellSize ==
    /\ a_pc = "start"
    /\ unit_coordinates' = [n \in 1..Len(reference) |->
                               UnitCoordinate(reference[n], SiStructure.cell)]
    /\ cell_size' = CellSize(unit_coordinates')
    /\ a_pc' = "compare"
    /\ UNCHANGED <<dynvars, psvars, reference, number_of_cell_atoms, order_type,
                   ref_index, list_trans, arangement, atom_axis>>

\* lines 44-54: the encoding that fits the coordinates
ArrOrderType ==
    /\ a_pc = "compare"
    /\ order_type' = OrderType(unit_coordinates, cell_size, number_of_cell_atoms)
    /\ a_pc' = IF order_type' = 1 THEN "match" ELSE "return"
    /\ UNCHANGED <<dynvars, psvars, reference, number_of_cell_atoms, unit_coordinates,
                   cell_size, ref_index, list_trans, arangement, atom_axis>>

\* lines 61-64: one reference of the outer loop against every target
ArrMatch ==
    /\ a_pc = "match" /\ ref_index < Len(unit_coordinates)
    /\ LET list_target == [m \in 1..Len(unit_coordinates) |->
                              type_2(m - 1, cell_size, number_of_cell_atoms)]
       IN  list_trans' = list_trans \o Matches(type_1(ref_index, cell_size, number_of_cell_atoms),
                                               list_target, 1)
    /\ ref_index' = ref_index + 1
    /\ UNCHANGED <<dynvars, psvars, a_pc, reference, number_of_cell_atoms, unit_coordinates,
                   cell_size, order_type, arangement, atom_axis>>

\* return list_trans / return None
ArrReturn ==
    /\ a_pc = IF order_type = 1 THEN "match" ELSE "return"
    /\ ref_index = IF order_type = 1 THEN Len(unit_coordinates) ELSE 0
    /\ arangement' = IF order_type = 1 THEN Some(list_trans) ELSE None
    /\ a_pc' = "returned"
    /\ UNCHANGED <<dynvars, psvars, reference, number_of_cell_atoms, unit_coordinates,
                   cell_size, order_type, ref_index, list_trans, atom_axis>>

\* check_trajectory_structure lines 21-25: trajectory[:,i,:] =
\* original_trajectory[:,position,:] for each entry of a non-empty list
ArrReorder ==
    /\ a_pc = "returned"
    /\ atom_axis' = IF arangement = None \/ arangement[1] = <<>> THEN atom_axis
                    ELSE [n \in 1..Len(atom_axis) |->
                            IF n <= Len(arangement[1]) THEN atom_axis[arangement[1][n] + 1]
                            ELSE atom_axis[n]]
    /\ a_pc' = "done"
    /\ UNCHANGED <<dynvars, psvars, reference, number_of_cell_atoms, unit_coordinates,
                   cell_size, order_type, ref_index, list_trans, arangement>>

\* the averaged position of the atom with encoding e: its cell's corner plus
\* the offset of its primitive atom inside the cell
Position(e) ==
    [j \in 1..3 |-> e[j] * SiStructure.cell[j] + e[4]]

InitArr ==
    /\ self = NewDynamics(SiStructure, None, None, None, None, None)
    /\ pre = self /\ last = NoCall /\ halted = FALSE /\ velocity_derived = FALSE
    /\ NoFunction
    /\ \E s0 \in 1..MaxCellSize, s1 \in 1..MaxCellSize, s2 \in 1..MaxCellSize,
          natom \in 1..MaxPrimitiveAtoms :
         LET size == <<s0, s1, s2>>
             n == s0 * s1 * s2 * natom
         IN  /\ number_of_cell_atoms = natom
             /\ \/ reference = [m \in 1..n |-> Position(type_2(m - 1, size, natom))]
                \/ reference = [m \in 1..n |-> Position(RowMajor(m - 1, size, natom))]
             /\ atom_axis = [m \in 1..n |-> m - 1]
    /\ a_pc = "start"
    /\ unit_coordinates = <<>> /\ cell_size = <<>> /\ order_type = 0
    /\ ref_index = 0 /\ list_trans = <<>> /\ arangement = None

NextArr ==
    \/ ArrCellSize
    \/ ArrOrderType
    \/ ArrMatch
    \/ ArrReturn
    \/ ArrReorder

SpecArr == InitArr /\ [][NextArr]_vars

\* ------------------------------------------------------ power_spectrum
\* progress_bar(progress, label): the value shown, after the clamping
progress_bar(value) ==
    IF QGreater(QInt(0), value) THEN QInt(0)
    ELSE IF ~QGreater(QInt(1), value) THEN QInt(1)
    ELSE value

\* what a per-mode kernel returns is a function of the kernel, the column
\* of vq and the kernel's parameters
Kernel(solver, mode, coefficients) ==
    [solver |-> solver, mode |-> mode, coefficients |-> coefficients]

KernelOf(f) ==
    IF f = "get_fourier_spectra_par_openmp" THEN "correlation_par"
    ELSE IF f = "get_mem_spectra_par_openmp" THEN "mem"
    ELSE IF f = "get_fft_spectra" THEN "fft_power"
    ELSE "fftw_power"

Estimators == {"get_fourier_spectra_par_openmp", "get_mem_spectra_par_openmp",
               "get_fft_spectra", "get_fft_fftw_spectra"}

\* number of coefficients check of get_mem_spectra_par_openmp
TooManyCoefficients(n_samples, coefficients) == n_samples <= coefficients + 1

UseTimeStep ==
    /\ self' = get_time_step_average(self).self
    /\ UNCHANGED <<pre, last, halted, velocity_derived, arrvars>>

\* entry of an estimator up to its loop: the coefficient check of the
\* Maximum Entropy driver, then progress_bar(0, label)
EstimatorExit ==
    /\ pc = "start" /\ fn = "get_mem_spectra_par_openmp"
    /\ TooManyCoefficients(args.n_samples, args.number_of_coefficients_mem)
    /\ pc' = "exit"
    /\ UNCHANGED <<dynvars, arrvars, fn, args, mode_index, candidate_index, psd_vector, progress, calls,
                   fit_data, scan_params, power_spectra, mem_full_dict, report>>

EstimatorStart ==
    /\ pc = "start" /\ fn \in Estimators
    /\ fn = "get_mem_spectra_par_openmp"
          => ~TooManyCoefficients(args.n_samples, args.number_of_coefficients_mem)
    /\ psd_vector' = <<>>
    /\ progress' = Append(progress, QInt(0))
    /\ mode_index' = 0
    /\ pc' = "loop"
    /\ UNCHANGED <<dynvars, arrvars, fn, args, candidate_index, calls,
                   fit_data, scan_params, power_spectra, mem_full_dict, report>>

StepValueFromZero(mode, n_modes) == Q(mode, n_modes)

\* float(i+1)/vq.shape[1]
StepValue(mode, n_modes) == Q(mode + 1, n_modes)

\* one iteration of "for i in range(vq.shape[1])"

EstimatorStep ==
    /\ pc = "loop" /\ fn \in Estimators /\ mode_index < args.n_modes
    /\ UseTimeStep
    /\ LET c == IF fn = "get_mem_spectra_par_openmp"
                THEN args.number_of_coefficients_mem ELSE 0
       IN  /\ calls' = Append(calls, [solver |-> KernelOf(fn), mode |-> mode_index, coefficients |-> c,
                                      n_samples |-> args.n_samples])
           /\ psd_vector' = Append(psd_vector, Kernel(KernelOf(fn), mode_index, c))
    /\ progress' = Append(progress, StepValue(mode_index, args.n_modes))
    /\ mode_index' = mode_index + 1
    /\ UNCHANGED <<fn, args, pc, candidate_index, fit_data, scan_params, power_spectra, mem_full_dict, report>>

EstimatorReturn ==
    /\ pc = "loop" /\ fn \in Estimators /\ mode_index >= args.n_modes
    /\ pc' = "done"
    /\ UNCHANGED <<dynvars, arrvars, fn, args, mode_index, candidate_index, psd_vector, progress, calls,
                   fit_data, scan_params, power_spectra, mem_full_dict, report>>

\* --- mem_coefficient_scan_analysis
Scan == "mem_coefficient_scan_analysis"

\* top of "for i in range(vq.shape[1])": the per-mode lists, progress_bar(0)
ScanModeStart ==
    /\ fn = Scan /\ pc \in {"start", "mode"} /\ mode_index < args.n_modes
    /\ fit_data' = <<>> /\ scan_params' = <<>> /\ power_spectra' = <<>>
    /\ progress' = Append(progress, QInt(0))
    /\ candidate_index' = 1
    /\ pc' = "candidate"
    /\ UNCHANGED <<dynvars, arrvars, fn, args, mode_index, psd_vector, calls, mem_full_dict, report>>

\* what curve_fit can do on a spectrum: raise, or return the parameters
\* fitted to that spectrum (with a half width) and a covariance that gives
\* the normalized error error/maximum
HalfWidths == {1}

Errors == {1, 2}

SolveCandidate(c) ==
    /\ UseTimeStep
    /\ calls' = Append(calls, [solver |-> "mem", mode |-> mode_index, coefficients |-> c,
                               n_samples |-> args.n_samples])

\* the except branch: the candidate is skipped
ScanFitFailure ==
    /\ fn = Scan /\ pc = "candidate" /\ candidate_index <= Len(args.mem_scan_range)
    /\ SolveCandidate(args.mem_scan_range[candidate_index])
    /\ candidate_index' = candidate_index + 1
    /\ UNCHANGED <<fn, args, pc, mode_index, psd_vector, progress,
                   fit_data, scan_params, power_spectra, mem_full_dict, report>>

ScanProgress(c, range) == Q(c + 1, range[Len(range)])

ScanFitSuccess ==
    /\ fn = Scan /\ pc = "candidate" /\ candidate_index <= Len(args.mem_scan_range)
    /\ LET c == args.mem_scan_range[candidate_index]
       IN  /\ SolveCandidate(c)
           /\ \E hw \in HalfWidths, err \in Errors :
                /\ fit_data' = Append(fit_data, <<c, 2 * hw, err>>)
                /\ scan_params' = Append(scan_params,
                                         [spectrum |-> Kernel("mem", mode_index, c), half_width |-> hw])
           /\ power_spectra' = Append(power_spectra, Kernel("mem", mode_index, c))
           /\ progress' = Append(progress, ScanProgress(c, args.mem_scan_range))
    /\ candidate_index' = candidate_index + 1
    /\ UNCHANGED <<fn, args, pc, mode_index, psd_vector, mem_full_dict, report>>

Column(data, col) == [j \in 1..Len(data) |-> data[j][col]]

ArgMax(v) ==
    (CHOOSE j \in 1..Len(v) :
        /\ \A m \in 1..Len(v) : v[j] >= v[m]
        /\ \A m \in 1..(j - 1) : v[m] < v[j]) - 1

\* numpy.argmin: the first index of the smallest entry (0-based)
ArgMin(v) ==
    (CHOOSE j \in 1..Len(v) :
        /\ \A m \in 1..Len(v) : v[j] <= v[m]
        /\ \A m \in 1..(j - 1) : v[m] > v[j]) - 1

\* after the candidates of a mode: np.array(fit_data).T of an empty list has
\* no row 1, so fit_data[1] raises IndexError
ScanSelectRaise ==
    /\ fn = Scan /\ pc = "candidate" /\ candidate_index > Len(args.mem_scan_range)
    /\ fit_data = <<>>
    /\ pc' = "raise"
    /\ UNCHANGED <<dynvars, arrvars, fn, args, mode_index, candidate_index, psd_vector, progress, calls,
                   fit_data, scan_params, power_spectra, mem_full_dict, report>>

\* best_width is kept as the average it is: the widths and the errors whose
\* sqrt(1/error) weigh them
ScanSelect ==
    /\ fn = Scan /\ pc = "candidate" /\ candidate_index > Len(args.mem_scan_range)
    /\ fit_data # <<>>
    /\ LET best_index == ArgMin(Column(fit_data, 3))
           best_width == [widths |-> Column(fit_data, 2), errors |-> Column(fit_data, 3)]
       IN  mem_full_dict' = Append(mem_full_dict,
                                   [power_spectrum |-> power_spectra[best_index + 1],
                                    best_width |-> best_width,
                                    best_index |-> best_index,
                                    fit_data |-> fit_data,
                                    scan_params |-> scan_params])
    /\ mode_index' = mode_index + 1
    /\ pc' = "mode"
    /\ UNCHANGED <<dynvars, arrvars, fn, args, candidate_index, psd_vector, progress, calls,
                   fit_data, scan_params, power_spectra, report>>

Min(v) == CHOOSE x \in {v[j] : j \in 1..Len(v)} : \A j \in 1..Len(v) : x <= v[j]

\* the second loop: what is printed for mode Len(report)
ScanReport ==
    /\ fn = Scan /\ pc \in {"start", "mode", "report"} /\ mode_index >= args.n_modes
    /\ Len(report) < args.n_modes
    /\ LET e == mem_full_dict[Len(report) + 1]
       IN  report' = Append(report,
                [width |-> e.best_width,
                 position |-> e.scan_params[e.best_index + 1],
                 coefficients |-> Column(e.fit_data, 1)[e.best_index + 1],
                 error |-> Min(Column(e.fit_data, 3))])
    /\ pc' = "report"
    /\ UNCHANGED <<dynvars, arrvars, fn, args, mode_index, candidate_index, psd_vector, progress, calls,
                   fit_data, scan_params, power_spectra, mem_full_dict>>

ScanReturn ==
    /\ fn = Scan /\ pc \in {"start", "mode", "report"} /\ mode_index >= args.n_modes
    /\ Len(report) = args.n_modes
    /\ pc' = "done"
    /\ UNCHANGED <<dynvars, arrvars, fn, args, mode_index, candidate_index, psd_vector, progress, calls,
                   fit_data, scan_params, power_spectra, mem_full_dict, report>>

\* mem_scan_range: an ascending range of coefficient counts
ScanRanges == {[j \in 1..(hi - lo + 1) |-> lo + j - 1] : lo \in 1..MaxCoefficients,
                                                       hi \in 1..MaxCoefficients} \ {<<>>}

\* vq.shape[1] in the calls of the scan
ScanModes == {0, 1, 2}

\* a call of one of the five functions on a vq of n_samples x n_modes, with
\* a trajectory that has a time axis
InitPS ==
    /\ self = NewDynamics(SiStructure, None, None, None, Some(<<0, 1, 2>>), Some(<<10, 5, 5>>))
    /\ pre = self /\ last = NoCall /\ halted = FALSE /\ velocity_derived = FALSE
    /\ fn \in Estimators \cup {Scan}
    /\ \E ns \in 1..MaxSamples, nm \in 0..MaxModes, c \in 0..MaxCoefficients, r \in ScanRanges :
         /\ fn = Scan => nm \in ScanModes
         /\ args = [n_samples |-> ns, n_modes |-> nm,
                    number_of_coefficients_mem |->
                        IF fn = "get_mem_spectra_par_openmp" THEN c ELSE 0,
                    mem_scan_range |-> IF fn = Scan THEN r ELSE <<>>]
    /\ pc = "start" /\ mode_index = 0 /\ candidate_index = 0
    /\ NoArrangement
    /\ psd_vector = <<>> /\ progress = <<>> /\ calls = <<>>
    /\ fit_data = <<>> /\ scan_params = <<>> /\ power_spectra = <<>>
    /\ mem_full_dict = <<>> /\ report = <<>>

NextPS ==
    \/ EstimatorExit
    \/ EstimatorStart
    \/ EstimatorStep
    \/ EstimatorReturn
    \/ ScanModeStart
    \/ ScanFitFailure
    \/ ScanFitSuccess
    \/ ScanSelectRaise
    \/ ScanSelect
    \/ ScanReport
    \/ ScanReturn

SpecPS == InitPS /\ [][NextPS]_vars

\* ------------------------------------------------------------ actions
Call(op, arg, r) ==
    /\ ~halted
    /\ pre' = self
    /\ self' = r.self
    /\ last' = [op |-> op, arg |-> arg, st |-> r.st, ret |-> r.ret]
    /\ halted' = (r.st # "ok")
    /\ velocity_derived' = (velocity_derived \/ (self.velocity = None /\ r.self.velocity # None))
    /\ UNCHANGED <<psvars, arrvars>>

CropTrajectory ==
    \E a \in Opt(-1..(MaxLen + 1)) : Call("crop_trajectory", a, crop_trajectory(self, a))

GetRelativeTrajectory == Call("get_relative_trajectory", None, get_relative_trajectory(self))

GetVelocityMassAverage == Call("get_velocity_mass_average", None, get_velocity_mass_average(self))

GetMeanDisplacementMatrix ==
    Call("get_mean_displacement_matrix", None, get_mean_displacement_matrix(self))

GetVelocity == Call("velocity", None, velocity(self))

GetTimeStepAverage == Call("get_time_step_average", None, get_time_step_average(self))

GetSuperCellMatrix ==
    \E tol \in Tolerances : Call("get_super_cell_matrix", tol, get_super_cell_matrix(self, tol))

GetNumberOfAtoms == Call("get_number_of_atoms", None, get_number_of_atoms(self))

SetSuperCell == \E c \in SuperCells : Call("set_super_cell", c, set_super_cell(self, c))

SetStructure == \E st \in Structures : Call("set_structure", st, set_structure(self, st))

SetTime ==
    \E M \in 2..MaxLen : \E t \in TimeSeries(M) : Call("set_time", Some(t), set_time(self, t))

\* A Dynamics object built with any subset of the four series, all of one length
Init ==
    /\ \E M \in 2..MaxLen :
         \E tr \in Opt(Series(M)), v \in Opt(VelocitySeries(M)),
            e \in Opt(EnergySeries(M)), t \in Opt(TimeSeries(M)) :
              self = NewDynamics(SiStructure, tr, v, e, t, Some(<<10, 5, 5>>))
    /\ pre = self
    /\ last = NoCall
    /\ halted = FALSE
    /\ velocity_derived = FALSE
    /\ NoFunction
    /\ NoArrangement

Next ==
    \/ CropTrajectory
    \/ GetRelativeTrajectory
    \/ GetVelocityMassAverage
    \/ GetMeanDisplacementMatrix
    \/ GetVelocity
    \/ GetTimeStepAverage

Spec == Init /\ [][Next]_vars

\* A Dynamics object without series, built over any structure and simulation cell
InitCell ==
    /\ \E st \in Structures, c \in SuperCells :
         self = NewDynamics(st, None, None, None, None, Some(c))
    /\ pre = self
    /\ last = NoCall
    /\ halted = FALSE
    /\ velocity_derived = FALSE
    /\ NoFunction
    /\ NoArrangement

NextCell ==
    \/ GetSuperCellMatrix
    \/ GetNumberOfAtoms
    \/ SetSuperCell
    \/ SetStructure

SpecCell == InitCell /\ [][NextCell]_vars

\* A Dynamics object built with a trajectory, a velocity and a time axis
InitTime ==
    /\ \E M \in 2..MaxLen :
         \E tr \in Series(M), t \in TimeSeries(M) :
              self = NewDynamics(SiStructure, Some(tr), Some([i \in 1..M |-> QInt(0)]),
                                 None, Some(t), Some(<<10, 5, 5>>))
    /\ pre = self
    /\ last = NoCall
    /\ halted = FALSE
    /\ velocity_derived = FALSE
    /\ NoFunction
    /\ NoArrangement

NextTime ==
    \/ SetTime
    \/ CropTrajectory
    \/ GetTimeStepAverage

SpecTime == InitTime /\ [][NextTime]_vars

\* ------------------------------------------------- claims on Dynamics
\* the last n samples of a series, stated independently of Python slicing
LastN(s, n) == [i \in 1..n |-> s[Len(s) - n + i]]

IsSuffix(a, b) == Len(a) <= Len(b) /\ a = LastN(b, Len(a))

AllPresent(s) ==
    s.trajectory # None /\ s.velocity # None /\ s.energy # None /\ s.time # None

Cropped == last.op = "crop_trajectory" /\ last.arg # None /\ last.arg[1] >= 0

\* C1: with all four series present (length M), crop_trajectory(N) for
\* 0 <= N < M leaves in each series exactly the last N samples of its
\* pre-crop value and clears the cached mass-weighted velocity.
C1_Claim ==
    (Cropped /\ AllPresent(pre) /\ last.arg[1] < Len(pre.trajectory[1]))
        => /\ last.st = "ok"
           /\ self.trajectory = Some(LastN(pre.trajectory[1], last.arg[1]))
           /\ self.velocity = Some(LastN(pre.velocity[1], last.arg[1]))
           /\ self.energy = Some(LastN(pre.energy[1], last.arg[1]))
           /\ self.time = Some(LastN(pre.time[1], last.arg[1]))
           /\ self.velocity_mass_average = None

\* C1 restricted to 1 <= N < M
C1_Positive == (Cropped /\ last.arg[1] >= 1) => C1_Claim

C1_Witness ==
    /\ Cropped /\ AllPresent(pre) /\ last.arg[1] = 0
    /\ pre.velocity_mass_average # None

Kept(before, after) ==
    IF before = None THEN after = None
    ELSE after # None /\ IsSuffix(after[1], before[1])

\* C2: crop_trajectory(N), N >= 0, neither requires nor creates an absent
\* series, trims the present ones and completes for every subset of
\* present series.
C2_Claim ==
    Cropped
        => /\ last.st = "ok"
           /\ Kept(pre.trajectory, self.trajectory)
           /\ Kept(pre.energy, self.energy)
           /\ Kept(pre.time, self.time)
           /\ Kept(pre.velocity, self.velocity)

\* C2 restricted to calls made with a velocity
C2_WithVelocity == (Cropped /\ pre.velocity # None) => C2_Claim

FreshRelative(s) == [t \in 1..Len(s.trajectory[1]) |-> s.trajectory[1][t] - s.structure.position]

FreshTimeStep(s) ==
    LET t == s.time[1]
    IN  QSum([i \in 1..(Len(t) - 1) |-> Q(t[i + 1] - t[i], Len(t) - 1)])

Returned(op) == last.op = op /\ last.st = "ok"

C3_Relative == Returned("get_relative_trajectory") => last.ret = FreshRelative(self)

C3_Displacement ==
    Returned("get_mean_displacement_matrix")
        => last.ret = displacement_matrix(FreshRelative(self), self.structure.number_of_atoms,
                                          Prod3(self.super_cell_matrix[1]))

C3_MassAverage ==
    Returned("get_velocity_mass_average")
        => last.ret = mass_weight(self.velocity[1], self.structure.mass)

C3_Velocity ==
    (/\ Returned("velocity") /\ velocity_derived
     /\ self.time # None /\ Len(self.trajectory[1]) >= 2)
        => last.ret = gradient(FreshRelative(self), FreshTimeStep(self))

\* C3: whatever accessors and crops came before, an accessor returns the
\* value computed from the current raw trajectory.
C3_Claim == C3_Relative /\ C3_Displacement /\ C3_MassAverage /\ C3_Velocity

\* ----------------------------------------- claims on the supercell matrix
RealRatio(s) ==
    [i \in 1..3 |-> Q(parameters(s.super_cell[1])[i], parameters(s.structure.cell)[i])]

\* |rounded_i - real_i| / norm(real) > tolerance, on squares
AxisDeviates(rounded, real, tolerance, i) ==
    LET d == QSub(QInt(rounded[i]), real[i])
        norm2 == QSum([j \in 1..3 |-> QMul(real[j], real[j])])
    IN  QGreater(QMul(d, d), QMul(QMul(tolerance, tolerance), norm2))

FirstCall == pre.super_cell_matrix = None

\* C4: get_super_cell_matrix(tolerance) returns only when on every axis the
\* rounded integer is within the relative tolerance of the real ratio;
\* otherwise it halts, also when the deviations have opposite signs.
C4_Claim ==
    (Returned("get_super_cell_matrix") /\ FirstCall)
        => \A i \in 1..3 : ~AxisDeviates(last.ret, RealRatio(self), last.arg, i)

C5_Positive ==
    (Returned("get_super_cell_matrix") /\ last.arg = DefaultTolerance)
        => \A i \in 1..3 : last.ret[i] >= 1

C5_Product ==
    Returned("get_number_of_atoms")
        => last.ret = self.structure.number_of_atoms
                        * Prod3(get_super_cell_matrix(self, DefaultTolerance).ret)

\* C5: a returned supercell vector has three integers >= 1, and
\* get_number_of_atoms() is the primitive atom count times their product in
\* every reachable state, whatever the call order and the setters called.
C5_Claim == C5_Positive /\ C5_Product

\* C5 for objects whose structure was never replaced
C5_ProductFirst ==
    (Returned("get_number_of_atoms") /\ pre.number_of_atoms = None) => C5_Product

\* ------------------------------------------ claims on power_spectrum
MemCalls == {j \in 1..Len(calls) : calls[j].solver = "mem"}

C6_Bound == \A j \in MemCalls : calls[j].coefficients < calls[j].n_samples - 1

\* the part of C6 on get_mem_spectra_par_openmp: abort before the first
\* solver call and progress update when c >= n - 1, else one call per mode
C6_Driver ==
    fn = "get_mem_spectra_par_openmp"
        => /\ C6_Bound
           /\ args.number_of_coefficients_mem >= args.n_samples - 1
                => calls = <<>> /\ progress = <<>> /\ pc \in {"start", "exit"}
           /\ pc = "done"
                => /\ Len(calls) = args.n_modes
                   /\ \A j \in 1..Len(calls) : calls[j].mode = j - 1

\* C6: the Maximum-Entropy solver is never called with c coefficients on n
\* samples unless c < n - 1, by get_mem_spectra_par_openmp and by
\* mem_coefficient_scan_analysis alike.
C6_Claim == C6_Driver /\ C6_Bound

\* C7: whatever fits fail, also all fits of a mode, the scan reaches the
\* best-selection step of every mode and no error surfaces.
C7_Claim == fn = Scan => pc # "raise"

\* C7 for the modes with at least one successful fit
C7_SomeFit == (fn = Scan /\ pc = "raise") => fit_data = <<>>

SelectedRight(m) ==
    LET e == mem_full_dict[m]
        b == e.best_index + 1
    IN  /\ b \in 1..Len(e.fit_data)
        /\ \A j \in 1..Len(e.fit_data) : e.fit_data[b][3] <= e.fit_data[j][3]
        /\ e.power_spectrum = Kernel("mem", m - 1, e.fit_data[b][1])
        /\ e.scan_params[b].spectrum = e.power_spectrum
        /\ e.fit_data[b][2] = 2 * e.scan_params[b].half_width
        /\ e.fit_data[1][1] = args.mem_scan_range[1] => e.fit_data[b][3] <= e.fit_data[1][3]
        /\ m <= Len(report)
             => /\ report[m].coefficients = e.fit_data[b][1]
                /\ report[m].position = e.scan_params[b]
                /\ report[m].error = e.fit_data[b][3]

\* C8: per mode the selected candidate is the recorded candidate of minimum
\* normalized error; the retained spectrum, the Lorentzian parameters and
\* the reported coefficient count are that candidate's; so the selected
\* error is <= the error recorded for the smallest tested count.
C8_Theorem == \A m \in 1..Len(mem_full_dict) : SelectedRight(m)

\* a finished scan of two modes in which a mode lost a candidate to a failed
\* fit and its best candidate is not the first recorded one
C8_Witness ==
    /\ fn = Scan /\ pc = "done" /\ Len(mem_full_dict) = 2
    /\ \E m \in 1..2 :
         /\ Len(mem_full_dict[m].fit_data) < Len(args.mem_scan_range)
         /\ mem_full_dict[m].best_index > 0
         /\ mem_full_dict[m].fit_data[1][1] # args.mem_scan_range[1]

ProgressFromZeroToOne ==
    /\ progress # <<>> => progress[1] = QInt(0)
    /\ \A j \in 1..(Len(progress) - 1) : ~QGreater(progress[j], progress[j + 1])
    /\ pc = "done" => progress # <<>> /\ progress[Len(progress)] = QInt(1)

\* C9 as stated, for any number of modes: the values passed to the progress
\* indicator start at 0, never decrease and end with 1 at the return.
C9_Claim == fn \in Estimators => ProgressFromZeroToOne

\* C9 for inputs with at least one mode
C9_Theorem == (fn \in Estimators /\ args.n_modes >= 1) => ProgressFromZeroToOne

C9_Witness ==
    /\ fn \in Estimators /\ pc = "done" /\ args.n_modes = 3
    /\ Len(progress) = 4

\* ---------------------------------- claims on get_correct_arangement
IsPermutation(list, n) ==
    /\ Len(list) = n
    /\ \A m \in 0..(n - 1) : Cardinality({j \in 1..Len(list) : list[j] = m}) = 1

\* C10: whenever type 2 is selected, the returned list is a permutation of
\* the atom indices 0..n-1, for every supercell size and primitive atom
\* count, and the reordered atom axis still holds every atom exactly once.
C10_Claim ==
    /\ (a_pc \in {"returned", "done"} /\ order_type = 1)
         => IsPermutation(arangement[1], Len(reference))
    /\ a_pc = "done" => IsPermutation(atom_axis, Len(reference))

\* C10 for supercells with equal first two axes
C10_EqualAxes == cell_size # <<>> /\ cell_size[1] = cell_size[2] => C10_Claim

C10_Witness ==
    /\ a_pc = "done" /\ order_type = 1 /\ cell_size[1] = cell_size[2]
    /\ arangement[1] # [m \in 1..Len(reference) |-> m - 1]

\* the mean of the consecutive differences of a time axis of two samples or more
MeanDifference(t) ==
    Q(Sum([i \in 1..(Len(t) - 1) |-> t[i + 1] - t[i]]), Len(t) - 1)

\* C11: every get_time_step_average() that returns gives the mean of the
\* consecutive differences of the Time series the object holds at that moment,
\* also after set_time replaced the series or crop_trajectory shortened it
C11_Claim ==
    (Returned("get_time_step_average") /\ Len(self.time[1]) >= 2)
        => last.ret = MeanDifference(self.time[1])

\* C11 for the calls made while no average is cached
C11_Uncached == pre.time_step_average = None => C11_Claim

\* a call answered from the cache after the series changed
C11_Witness ==
    /\ Returned("get_time_step_average")
    /\ pre.time_step_average # None
    /\ Len(self.time[1]) >= 2
    /\ last.ret # MeanDifference(self.time[1])

====
